---- MODULE Spec2Model ----
(***************************************************************************)
(* Model of src/cache.rs: IconsCache and ThemeCache, the memoizing lookup  *)
(* layer over Icons / Theme.                                               *)
(*                                                                         *)
(* Option<T> is a sequence of length 0 (None) or 1 (Some).                 *)
(* Arc<Theme> is the theme's key into icons.themes; &Directory is the pair *)
(* <<theme key, position>>.  An IconFile is the record                     *)
(* [theme, dir, name, ext], i.e. the path of the file.                     *)
(***************************************************************************)
EXTENDS Integers, Sequences, FiniteSets

VARIABLES icons,      \* IconsCache.icons : the Icons the cache was built from
          themes,     \* IconsCache.themes : theme name -> ThemeCache
          populated   \* number of pre_populate_cache calls made so far

vars == <<icons, themes, populated>>

\* pre_populate_cache is called at most this many times in a behaviour
MaxPrePopulate == 2

None == <<>>
Some(x) == <<x>>
IsSome(o) == Len(o) = 1
Unwrap(o) == o[1]
\* Option::or_else
OrElse(o, alt) == IF IsSome(o) THEN o ELSE alt

----------------------------------------------------------------------------
(* Directory descriptors and their predicates (crate::theme, not in src/). *)

Fixed(size, scale) ==
    [type |-> "Fixed", size |-> size, scale |-> scale,
     min_size |-> size, max_size |-> size, threshold |-> 0]
Scalable(size, scale, lo, hi) ==
    [type |-> "Scalable", size |-> size, scale |-> scale,
     min_size |-> lo, max_size |-> hi, threshold |-> 0]
Threshold(size, scale, thr) ==
    [type |-> "Threshold", size |-> size, scale |-> scale,
     min_size |-> size, max_size |-> size, threshold |-> thr]

\* the range of sizes a directory serves exactly
DirLow(d) == IF d.type = "Scalable" THEN d.min_size ELSE d.size - d.threshold
DirHigh(d) == IF d.type = "Scalable" THEN d.max_size ELSE d.size + d.threshold

matches_size(d, size, scale) ==
    /\ d.scale = scale
    /\ DirLow(d) <= size
    /\ size <= DirHigh(d)

size_distance(d, size, scale) ==
    LET want == size * scale
    IN  IF want < DirLow(d) * d.scale THEN DirLow(d) * d.scale - want
        ELSE IF want > DirHigh(d) * d.scale THEN want - DirHigh(d) * d.scale
        ELSE 0

----------------------------------------------------------------------------
(* The inputs of the lookups.                                              *)

IconNames == {"happy", "sad", ""}
\* the icon names a ThemeCache is asked for directly
ThemeIconNames == {"happy", "sad"}
ThemeNames == {"TestTheme", "OtherTheme", "hicolor", "NoSuchTheme"}
\* <<size, scale>> pairs asked for
Requests == {<<16, 2>>, <<24, 1>>}
\* sizes and scales out of range: the matching is asked about them as well
ZeroRequests == {<<0, 1>>, <<16, 0>>, <<0, 0>>}

----------------------------------------------------------------------------
(* Icons and Theme (crate::Icons, crate::Theme, not in src/).              *)
(* A Theme is [internal_name, directories, inherits_from]; a directory is  *)
(* [desc, files] with files the sequence of <<icon name, extension>> in    *)
(* it; inherits_from is the sequence of parent Arc<Theme>.                 *)

IconFile(theme, dir, name, ext) ==
    [theme |-> theme, dir |-> dir, name |-> name, ext |-> ext]
icon_name(ico) == ico.name

RECURSIVE SeqConcat(_)
\* the concatenation of a sequence of sequences (Iterator::flatten)
SeqConcat(ss) == IF ss = <<>> THEN <<>> ELSE Head(ss) \o SeqConcat(Tail(ss))

\* the files called `name` in directory `i` of `theme`, in directory order
DirIconFiles(theme, i, name) ==
    LET fs == theme.directories[i].files
        hit(j) == IF fs[j][1] = name
                  THEN <<IconFile(theme.internal_name, i, name, fs[j][2])>>
                  ELSE <<>>
    IN  SeqConcat([j \in 1..Len(fs) |-> hit(j)])

\* Theme::find_icon_files: every (DirectoryRef, IconFile) for `name`
find_icon_files(theme, name) ==
    LET pair(i) == LET fs == DirIconFiles(theme, i, name)
                   IN  [k \in 1..Len(fs) |-> <<i, fs[k]>>]
    IN  SeqConcat([i \in 1..Len(theme.directories) |-> pair(i)])

\* the least position among `hits`, 0 when there is none
FirstIndex(hits) ==
    IF hits = {} THEN 0 ELSE CHOOSE k \in hits : \A m \in hits : k <= m

\* Theme::find_icon_here, the uncached local match: the first file in a
\* directory that matches exactly, else the first of the closest directories
Theme_find_icon_here(theme, name, size, scale) ==
    LET files == find_icon_files(theme, name)
        dirOf(k) == theme.directories[files[k][1]].desc
        exact == {k \in 1..Len(files) : matches_size(dirOf(k), size, scale)}
        least == {k \in 1..Len(files) : \A m \in 1..Len(files) :
                     size_distance(dirOf(k), size, scale)
                         <= size_distance(dirOf(m), size, scale)}
        first(S) == CHOOSE k \in S : \A m \in S : k <= m
    IN  IF exact # {} THEN Some(files[first(exact)][2])
        ELSE IF least # {} THEN Some(files[first(least)][2])
        ELSE None

\* find_map taking the last parent that has the icon instead of the first
FindInParents_Last(heap, parents, name, size, scale) ==
    LET res == [k \in 1..Len(parents) |->
                   Theme_find_icon_here(heap[parents[k]], name, size, scale)]
        hits == {k \in 1..Len(parents) : IsSome(res[k])}
    IN  IF hits = {} THEN None
        ELSE res[CHOOSE k \in hits : \A m \in hits : m <= k]

\* Iterator::find_map over the parents' local match
FindInParents(heap, parents, name, size, scale) ==
    LET res == [k \in 1..Len(parents) |->
                   Theme_find_icon_here(heap[parents[k]], name, size, scale)]
        k0 == FirstIndex({k \in 1..Len(parents) : IsSome(res[k])})
    IN  IF k0 = 0 THEN None ELSE res[k0]

\* Theme::find_icon, uncached: here, else the first parent that has it
Theme_find_icon(heap, theme, name, size, scale) ==
    OrElse(Theme_find_icon_here(theme, name, size, scale),
           FindInParents(heap, theme.inherits_from, name, size, scale))

\* Icons::find_standalone_icon
Icons_find_standalone_icon(ics, name) ==
    IF name \in DOMAIN ics.standalone THEN Some(ics.standalone[name]) ELSE None

\* Icons::theme
Icons_theme(ics, theme) ==
    IF theme \in DOMAIN ics.themes THEN Some(ics.themes[theme]) ELSE None

\* Icons::find_icon, the uncached lookup
Icons_find_icon(ics, name, size, scale, theme) ==
    LET th == OrElse(Icons_theme(ics, theme), Icons_theme(ics, "hicolor"))
    IN  IF name = "" \/ ~IsSome(th) THEN None
        ELSE OrElse(Theme_find_icon(ics.themes, Unwrap(th), name, size, scale),
                    Icons_find_standalone_icon(ics, name))

\* the triples of one theme, directory by directory, file by file
ThemeAllIcons(theme) ==
    LET ofDir(i) == LET fs == theme.directories[i].files
                    IN  [j \in 1..Len(fs) |->
                            <<theme.internal_name, <<theme.internal_name, i>>,
                              IconFile(theme.internal_name, i, fs[j][1], fs[j][2])>>]
    IN  SeqConcat([i \in 1..Len(theme.directories) |-> ofDir(i)])

\* Icons::find_all_icons: every (theme, directory, icon file), the themes in
\* the order `order` (the map's iteration order)
find_all_icons(ics, order) ==
    SeqConcat([k \in 1..Len(order) |-> ThemeAllIcons(ics.themes[order[k]])])

----------------------------------------------------------------------------
(* The indexes the cache is built from.                                    *)

\* the files of a directory: `names` picks the icon names it holds
FilesOf(names, exts) ==
    SeqConcat([k \in 1..Len(names) |-> [e \in 1..Len(exts) |-> <<names[k], exts[e]>>]])

TestDirs(happyDirs) ==
    LET has(i) == IF i \in happyDirs THEN <<"happy">> ELSE <<>>
    IN  << [desc |-> Fixed(32, 1), files |-> FilesOf(has(1), <<"png", "svg">>)],
           [desc |-> Fixed(16, 2), files |-> FilesOf(has(2), <<"png">>)],
           [desc |-> Threshold(16, 1, 2), files |-> FilesOf(has(3), <<"png">>)] >>

OtherDirs ==
    << [desc |-> Scalable(32, 1, 24, 48), files |-> FilesOf(<<"happy">>, <<"svg">>)] >>

HicolorDirs ==
    << [desc |-> Fixed(24, 1), files |-> FilesOf(<<"sad", "happy">>, <<"png">>)],
       [desc |-> Fixed(16, 1), files |-> FilesOf(<<"sad">>, <<"png">>)] >>

MakeTheme(name, dirs, parents) ==
    [internal_name |-> name, directories |-> dirs, inherits_from |-> parents]

MakeIcons(happyDirs, hicolor) ==
    LET keys == {"TestTheme", "OtherTheme"} \cup (IF hicolor THEN {"hicolor"} ELSE {})
        parents == IF hicolor THEN <<"OtherTheme", "hicolor">> ELSE <<"OtherTheme">>
        theme(k) ==
            CASE k = "TestTheme" -> MakeTheme(k, TestDirs(happyDirs), parents)
              [] k = "OtherTheme" -> MakeTheme(k, OtherDirs, <<>>)
              [] OTHER -> MakeTheme(k, HicolorDirs, <<>>)
        alone == IF hicolor THEN {"sad"} ELSE {"happy"}
    IN  [themes |-> [k \in keys |-> theme(k)],
         standalone |-> [n \in alone |-> IconFile("", 0, n, "png")]]

\* with the default theme installed TestTheme holds "happy" in any subset
\* of its directories and "sad" is a standalone icon; without it TestTheme
\* holds "happy" in none or in the first two, "happy" is a standalone icon
\* and "sad" is nowhere
Indexes ==
    {MakeIcons(hd, TRUE) : hd \in SUBSET (1..3)}
    \cup {MakeIcons(hd, FALSE) : hd \in {{}, {1, 2}}}

----------------------------------------------------------------------------
(* ThemeCache: [theme, cache].  `theme` is the Arc<Theme>, `cache` maps an *)
(* icon name to its Vec<(DirectoryRef, IconFile)>.  A DirectoryRef is the  *)
(* 1-based position in the theme's directories.  `heap` resolves an        *)
(* Arc<Theme> to the Theme it points to.  Every &mut self method yields    *)
(* [self, ret, enumerated]: the ThemeCache after the call, the value       *)
(* returned, and whether find_icon_files was called.                       *)

EmptyCache == [n \in {} |-> <<>>]

\* impl From<Arc<Theme>> for ThemeCache
ThemeCache_from(theme) == [theme |-> theme, cache |-> EmptyCache]

\* ThemeCache::from_theme
from_theme(theme) == ThemeCache_from(theme)

\* cache.entry(name).or_insert_with(make): the table afterwards
EntryOrInsert(cache, name, made) ==
    IF name \in DOMAIN cache THEN cache
    ELSE [n \in DOMAIN cache \cup {name} |->
             IF n = name THEN made ELSE cache[n]]

RECURSIVE ExactMatch(_, _, _, _)
\* the `for (dir, ico) in icon_files` loop: the first file whose directory
\* matches the size and scale exactly
ExactMatch(dirs, icon_files, size, scale) ==
    IF icon_files = <<>> THEN None
    ELSE IF matches_size(dirs[Head(icon_files)[1]].desc, size, scale)
         THEN Some(Head(icon_files)[2])
         ELSE ExactMatch(dirs, Tail(icon_files), size, scale)

RECURSIVE MinByDistance_Last(_, _, _, _, _)
\* min_by_key keeping the last of the closest elements instead of the first
MinByDistance_Last(dirs, best, rest, size, scale) ==
    IF rest = <<>> THEN best
    ELSE LET x == Head(rest)
             closer == size_distance(dirs[x[1]].desc, size, scale)
                           <= size_distance(dirs[best[1]].desc, size, scale)
         IN  MinByDistance_Last(dirs, IF closer THEN x ELSE best, Tail(rest),
                                size, scale)

RECURSIVE MinByDistance(_, _, _, _, _)
\* Iterator::min_by_key on size_distance: `best` is replaced only by a
\* strictly closer element, so the first of the closest is kept
MinByDistance(dirs, best, rest, size, scale) ==
    IF rest = <<>> THEN best
    ELSE LET x == Head(rest)
             closer == size_distance(dirs[x[1]].desc, size, scale)
                           < size_distance(dirs[best[1]].desc, size, scale)
         IN  MinByDistance(dirs, IF closer THEN x ELSE best, Tail(rest), size, scale)

\* the closest match given up unless the closest candidate is at distance 0
ClosestMatch_ZeroOnly(dirs, icon_files, size, scale) ==
    IF icon_files = <<>> THEN None
    ELSE LET best == MinByDistance(dirs, Head(icon_files), Tail(icon_files),
                                   size, scale)
         IN  IF size_distance(dirs[best[1]].desc, size, scale) = 0
             THEN Some(best[2]) ELSE None

\* the closest match of find_icon_here
ClosestMatch(dirs, icon_files, size, scale) ==
    IF icon_files = <<>> THEN None
    ELSE Some(MinByDistance(dirs, Head(icon_files), Tail(icon_files), size, scale)[2])

\* find_icon_here without its exact-match loop
MatchIn_ClosestOnly(dirs, icon_files, size, scale) ==
    ClosestMatch(dirs, icon_files, size, scale)

\* what find_icon_here answers from a candidate list
MatchIn(dirs, icon_files, size, scale) ==
    OrElse(ExactMatch(dirs, icon_files, size, scale),
           ClosestMatch(dirs, icon_files, size, scale))

\* find_icon_here that enumerates the files but does not store them
ThemeCache_find_icon_here_NoMemo(heap, self, name, size, scale) ==
    LET theme == heap[self.theme]
        cache == EntryOrInsert(self.cache, name, find_icon_files(theme, name))
    IN  [self |-> self,
         ret |-> MatchIn(theme.directories, cache[name], size, scale),
         enumerated |-> name \notin DOMAIN self.cache]

\* ThemeCache::find_icon_here
ThemeCache_find_icon_here(heap, self, name, size, scale) ==
    LET theme == heap[self.theme]
        miss == name \notin DOMAIN self.cache
        cache == EntryOrInsert(self.cache, name, find_icon_files(theme, name))
    IN  [self |-> [self EXCEPT !.cache = cache],
         ret |-> MatchIn(theme.directories, cache[name], size, scale),
         enumerated |-> miss]

\* ThemeCache::find_icon
ThemeCache_find_icon(heap, self, name, size, scale) ==
    LET here == ThemeCache_find_icon_here(heap, self, name, size, scale)
    IN  [self |-> here.self,
         ret |-> OrElse(here.ret,
                        FindInParents(heap, heap[self.theme].inherits_from,
                                      name, size, scale)),
         enumerated |-> here.enumerated]

\* clear_cache that leaves the table as it is
ThemeCache_clear_cache_Noop(self) == self

\* ThemeCache::clear_cache
ThemeCache_clear_cache(self) == [self EXCEPT !.cache = EmptyCache]

----------------------------------------------------------------------------
(* IconsCache: [icons, themes].  A &mut self method yields [themes, ret]:  *)
(* the theme caches after the call and the value returned.                 *)

\* the conversion leaving out the default theme
IconsCache_from_NoDefault(ics) ==
    [k \in DOMAIN ics.themes \ {"hicolor"} |-> ThemeCache_from(k)]

\* impl From<Icons> for IconsCache: the `themes` field
IconsCache_from(ics) == [k \in DOMAIN ics.themes |-> ThemeCache_from(k)]

\* IconsCache::from_icons
from_icons(ics) == IconsCache_from(ics)

\* IconsCache::theme_cache / theme_cache_mut: the entry's key, if any
theme_cache_mut(thms, theme_name) ==
    IF theme_name \in DOMAIN thms THEN Some(theme_name) ELSE None

\* IconsCache::find_standalone_icon
find_standalone_icon(ics, name) == Icons_find_standalone_icon(ics, name)

\* find_icon without the fallback to "hicolor" for an unknown theme
IconsCache_find_icon_NoFallback(ics, thms, name, size, scale, theme) ==
    LET th == theme_cache_mut(thms, theme)
    IN  IF name = "" \/ ~IsSome(th) THEN [themes |-> thms, ret |-> None]
        ELSE LET r == ThemeCache_find_icon(ics.themes, thms[Unwrap(th)],
                                           name, size, scale)
             IN  [themes |-> [thms EXCEPT ![Unwrap(th)] = r.self],
                  ret |-> OrElse(r.ret, find_standalone_icon(ics, name))]

\* find_icon answering an unknown theme, "hicolor" unknown too, with the
\* standalone icon
IconsCache_find_icon_StandaloneOnUnknown(ics, thms, name, size, scale, theme) ==
    LET th == OrElse(theme_cache_mut(thms, theme), theme_cache_mut(thms, "hicolor"))
    IN  IF name = "" THEN [themes |-> thms, ret |-> None]
        ELSE IF ~IsSome(th)
        THEN [themes |-> thms, ret |-> find_standalone_icon(ics, name)]
        ELSE LET r == ThemeCache_find_icon(ics.themes, thms[Unwrap(th)],
                                           name, size, scale)
             IN  [themes |-> [thms EXCEPT ![Unwrap(th)] = r.self],
                  ret |-> OrElse(r.ret, find_standalone_icon(ics, name))]

\* find_icon trying the standalone icon before the theme
IconsCache_find_icon_StandaloneFirst(ics, thms, name, size, scale, theme) ==
    LET th == OrElse(theme_cache_mut(thms, theme), theme_cache_mut(thms, "hicolor"))
    IN  IF name = "" \/ ~IsSome(th) THEN [themes |-> thms, ret |-> None]
        ELSE LET r == ThemeCache_find_icon(ics.themes, thms[Unwrap(th)],
                                           name, size, scale)
             IN  [themes |-> [thms EXCEPT ![Unwrap(th)] = r.self],
                  ret |-> OrElse(find_standalone_icon(ics, name), r.ret)]

\* find_icon without the is_empty guard
IconsCache_find_icon_NoGuard(ics, thms, name, size, scale, theme) ==
    LET th == OrElse(theme_cache_mut(thms, theme), theme_cache_mut(thms, "hicolor"))
    IN  IF ~IsSome(th) THEN [themes |-> thms, ret |-> None]
        ELSE LET r == ThemeCache_find_icon(ics.themes, thms[Unwrap(th)],
                                           name, size, scale)
             IN  [themes |-> [thms EXCEPT ![Unwrap(th)] = r.self],
                  ret |-> OrElse(r.ret, find_standalone_icon(ics, name))]

\* find_icon consulting the parents through their own ThemeCache, which
\* fills the parents' tables
IconsCache_find_icon_CachedParents(ics, thms, name, size, scale, theme) ==
    LET th == OrElse(theme_cache_mut(thms, theme), theme_cache_mut(thms, "hicolor"))
    IN  IF name = "" \/ ~IsSome(th) THEN [themes |-> thms, ret |-> None]
        ELSE LET r == ThemeCache_find_icon(ics.themes, thms[Unwrap(th)],
                                           name, size, scale)
                 own == find_icon_files(ics.themes[Unwrap(th)], name) # <<>>
                 parents == {ics.themes[Unwrap(th)].inherits_from[i] :
                                i \in 1..Len(ics.themes[Unwrap(th)].inherits_from)}
             IN  [themes |->
                     [k \in DOMAIN thms |->
                         IF k = Unwrap(th) THEN r.self
                         ELSE IF k \in parents /\ ~own
                         THEN ThemeCache_find_icon_here(ics.themes, thms[k],
                                                        name, size, scale).self
                         ELSE thms[k]],
                  ret |-> OrElse(r.ret, find_standalone_icon(ics, name))]

\* IconsCache::find_icon
IconsCache_find_icon(ics, thms, name, size, scale, theme) ==
    LET th == OrElse(theme_cache_mut(thms, theme), theme_cache_mut(thms, "hicolor"))
    IN  IF name = "" \/ ~IsSome(th) THEN [themes |-> thms, ret |-> None]
        ELSE LET r == ThemeCache_find_icon(ics.themes, thms[Unwrap(th)],
                                           name, size, scale)
             IN  [themes |-> [thms EXCEPT ![Unwrap(th)] = r.self],
                  ret |-> OrElse(r.ret, find_standalone_icon(ics, name))]

\* IconsCache::find_default_icon
IconsCache_find_default_icon(ics, thms, name, size, scale) ==
    IconsCache_find_icon(ics, thms, name, size, scale, "hicolor")

\* the position counted from 1 where a DirectoryRef counts from 0
DirPosition_OffByOne(heap, tc, dir) ==
    LET at == [i \in 1..Len(heap[tc.theme].directories) |-> <<tc.theme, i>>]
        hits == {i \in DOMAIN at : at[i] = dir}
    IN  IF hits = {} THEN 0 ELSE FirstIndex(hits) + 1

\* directories.iter().position(|d| ptr::eq(d, dir)): directory i of the
\* theme behind `tc` lives at <<tc.theme, i>>
DirPosition(heap, tc, dir) ==
    LET at == [i \in 1..Len(heap[tc.theme].directories) |-> <<tc.theme, i>>]
    IN  FirstIndex({i \in DOMAIN at : at[i] = dir})

\* the entry overwritten by the item instead of the item pushed onto it
EntryPush_Replace(cache, name, item) ==
    [n \in DOMAIN cache \cup {name} |-> IF n = name THEN <<item>> ELSE cache[n]]

\* the item put in front of the list instead of pushed at its end
EntryPush_Prepend(cache, name, item) ==
    LET c == EntryOrInsert(cache, name, <<>>)
    IN  [c EXCEPT ![name] = <<item>> \o @]

\* cache.entry(name).or_insert_with(Default::default).push(item)
EntryPush(cache, name, item) ==
    LET c == EntryOrInsert(cache, name, <<>>)
    IN  [c EXCEPT ![name] = Append(@, item)]

\* one iteration of the loop of pre_populate_cache
PrePopulateStep(heap, thms, triple) ==
    LET key == triple[1]
        icon == triple[3]
    IN  IF key \notin DOMAIN thms THEN thms
        ELSE LET dir_ref == DirPosition(heap, thms[key], triple[2])
             IN  IF dir_ref = 0 THEN thms
                 ELSE [thms EXCEPT ![key].cache =
                           EntryPush(@, icon_name(icon), <<dir_ref, icon>>)]

\* whether the iteration for `triple` takes one of the two `continue`s
Skipped(heap, thms, triple) ==
    \/ triple[1] \notin DOMAIN thms
    \/ DirPosition(heap, thms[triple[1]], triple[2]) = 0

RECURSIVE PrePopulateLoop_Abort(_, _, _)
\* the loop left at the first triple it cannot place, instead of continued
PrePopulateLoop_Abort(heap, thms, triples) ==
    IF triples = <<>> \/ Skipped(heap, thms, Head(triples)) THEN thms
    ELSE PrePopulateLoop_Abort(heap, PrePopulateStep(heap, thms, Head(triples)),
                               Tail(triples))

RECURSIVE PrePopulateLoop(_, _, _)
PrePopulateLoop(heap, thms, triples) ==
    IF triples = <<>> THEN thms
    ELSE PrePopulateLoop(heap, PrePopulateStep(heap, thms, Head(triples)),
                         Tail(triples))

\* IconsCache::pre_populate_cache, find_all_icons walking the themes in `order`
pre_populate_cache(ics, thms, order) ==
    PrePopulateLoop(ics.themes, thms, find_all_icons(ics, order))

----------------------------------------------------------------------------
(* The state machine.                                                      *)

\* the orders a map with key set S can be iterated in
Orders(S) ==
    {o \in [1..Cardinality(S) -> S] : \A i, j \in DOMAIN o : i # j => o[i] # o[j]}

\* triples no cache entry or no directory of the theme answers to: one of a
\* theme that is no key of the cache, one whose directory is another theme's
Anomalies ==
    { <<"GhostTheme", <<"GhostTheme", 1>>, IconFile("GhostTheme", 1, "happy", "png")>>,
      <<"TestTheme", <<"OtherTheme", 1>>, IconFile("OtherTheme", 1, "sad", "png")>> }

\* `triples` with `extra` put in after the first p of them
InsertAt(triples, p, extra) ==
    SubSeq(triples, 1, p) \o <<extra>> \o SubSeq(triples, p + 1, Len(triples))

Init ==
    /\ icons \in Indexes
    /\ themes = from_icons(icons)
    /\ populated = 0

FindIcon ==
    \E name \in IconNames, rq \in Requests, theme \in ThemeNames :
        /\ themes' = IconsCache_find_icon(icons, themes, name, rq[1], rq[2], theme).themes
        /\ UNCHANGED <<icons, populated>>

FindDefaultIcon ==
    \E name \in IconNames, rq \in Requests :
        /\ themes' = IconsCache_find_default_icon(icons, themes, name, rq[1], rq[2]).themes
        /\ UNCHANGED <<icons, populated>>

PrePopulateCache ==
    /\ populated < MaxPrePopulate
    /\ \E order \in Orders(DOMAIN icons.themes) :
           themes' = pre_populate_cache(icons, themes, order)
    /\ populated' = populated + 1
    /\ UNCHANGED icons

\* pre_populate_cache when find_all_icons yields, somewhere in its walk, a
\* triple that does not belong to the index the cache was built from
PrePopulateCacheAnomaly ==
    /\ populated < MaxPrePopulate
    /\ \E order \in Orders(DOMAIN icons.themes), extra \in Anomalies :
           LET walk == find_all_icons(icons, order)
           IN  \E p \in 0..Len(walk) :
                   themes' = PrePopulateLoop(icons.themes, themes,
                                             InsertAt(walk, p, extra))
    /\ populated' = populated + 1
    /\ UNCHANGED icons

\* theme_cache_mut(t).find_icon(..)
ThemeFindIcon ==
    \E t \in ThemeNames, name \in ThemeIconNames, rq \in Requests :
        /\ IsSome(theme_cache_mut(themes, t))
        /\ themes' = [themes EXCEPT ![t] =
               ThemeCache_find_icon(icons.themes, @, name, rq[1], rq[2]).self]
        /\ UNCHANGED <<icons, populated>>

\* theme_cache_mut(t).find_icon_here(..)
ThemeFindIconHere ==
    \E t \in ThemeNames, name \in ThemeIconNames, rq \in Requests :
        /\ IsSome(theme_cache_mut(themes, t))
        /\ themes' = [themes EXCEPT ![t] =
               ThemeCache_find_icon_here(icons.themes, @, name, rq[1], rq[2]).self]
        /\ UNCHANGED <<icons, populated>>

\* theme_cache_mut(t).clear_cache()
ClearCache ==
    \E t \in ThemeNames :
        /\ IsSome(theme_cache_mut(themes, t))
        /\ themes' = [themes EXCEPT ![t] = ThemeCache_clear_cache(@)]
        /\ UNCHANGED <<icons, populated>>

Next ==
    \/ FindIcon
    \/ FindDefaultIcon
    \/ PrePopulateCache
    \/ ThemeFindIcon
    \/ ThemeFindIconHere
    \/ ClearCache

Spec == Init /\ [][Next]_vars

\* the machine of the methods of IconsCache itself: the lookups reach the
\* memo tables through find_icon only
NextIcons ==
    \/ FindIcon
    \/ FindDefaultIcon
    \/ PrePopulateCache
    \/ ClearCache

SpecIcons == Init /\ [][NextIcons]_vars

\* the machine over a find_all_icons that yields a foreign triple in every
\* walk; the lookups through IconsCache and ThemeCache::find_icon change the
\* tables as find_icon_here does, so find_icon_here stands for them
NextAnomaly ==
    \/ ThemeFindIconHere
    \/ PrePopulateCacheAnomaly

SpecAnomaly == Init /\ [][NextAnomaly]_vars

----------------------------------------------------------------------------
(* Properties.  A call is named by the value its operator yields in the    *)
(* current state, so a property over "every call" quantifies the inputs.   *)

\* an IconsCache as construction leaves it
Fresh == themes = from_icons(icons)

\* the value IconsCache::find_icon returns when called on the caches `thms`
FindIconRet(thms, name, rq, theme) ==
    IconsCache_find_icon(icons, thms, name, rq[1], rq[2], theme).ret

\* the call ThemeCache::find_icon_here on the cache of theme k
Here(k, name, rq) ==
    ThemeCache_find_icon_here(icons.themes, themes[k], name, rq[1], rq[2])

\* the icon names with a file in some directory of the theme
NamesIn(theme) ==
    UNION {{theme.directories[i].files[j][1] :
                j \in 1..Len(theme.directories[i].files)} :
           i \in 1..Len(theme.directories)}

\* C1: on a freshly constructed IconsCache, find_icon returns what the
\* uncached Icons::find_icon returns on the same index, for every icon name,
\* size, scale and theme name
CacheTransparency ==
    Fresh =>
        \A name \in IconNames, rq \in Requests, theme \in ThemeNames :
            FindIconRet(themes, name, rq, theme)
                = Icons_find_icon(icons, name, rq[1], rq[2], theme)

\* the caches right after find_icon("happy", 24, 1, "TestTheme") on a fresh
\* IconsCache, where the call returned the closest file, which is not the
\* first candidate, as the uncached lookup does
WitnessCacheTransparency ==
    LET r == IconsCache_find_icon(icons, from_icons(icons),
                                  "happy", 24, 1, "TestTheme")
    IN  /\ themes = r.themes
        /\ ~Fresh
        /\ r.ret = Some(IconFile("TestTheme", 3, "happy", "png"))
        /\ Len(themes["TestTheme"].cache["happy"]) > 1
        /\ r.ret = Icons_find_icon(icons, "happy", 24, 1, "TestTheme")

\* the caches with every name of `names` looked up lazily in every theme
RECURSIVE LazilyPopulated(_, _)
LazilyPopulated(thms, names) ==
    IF names = {} THEN thms
    ELSE LET n == CHOOSE x \in names : TRUE
         IN  LazilyPopulated(
                 [k \in DOMAIN thms |->
                     ThemeCache_find_icon_here(icons.themes, thms[k], n, 16, 2).self],
                 names \ {n})

\* C2: from a freshly constructed IconsCache, after pre_populate_cache every
\* find_icon for an icon present in the source data returns what it returns
\* on a cache populated only lazily, and each theme's memo table has exactly
\* one entry per distinct icon name present in that theme's directories
PrePopulationEquivalence ==
    Fresh =>
        \A order \in Orders(DOMAIN icons.themes) :
            LET pre == pre_populate_cache(icons, themes, order)
                lazy == LazilyPopulated(themes, IconNames)
            IN  /\ \A k \in DOMAIN pre :
                       DOMAIN pre[k].cache = NamesIn(icons.themes[k])
                /\ \A name \in IconNames, rq \in Requests, theme \in ThemeNames :
                       /\ FindIconRet(pre, name, rq, theme)
                              = FindIconRet(lazy, name, rq, theme)
                       /\ FindIconRet(pre, name, rq, theme)
                              = FindIconRet(themes, name, rq, theme)

\* the caches right after one pre_populate_cache on a fresh IconsCache: a
\* theme holds two names, and a name has candidates in several directories
WitnessPrePopulationEquivalence ==
    /\ populated = 1
    /\ \E order \in Orders(DOMAIN icons.themes) :
           themes = pre_populate_cache(icons, from_icons(icons), order)
    /\ "hicolor" \in DOMAIN themes
    /\ DOMAIN themes["hicolor"].cache = {"happy", "sad"}
    /\ "happy" \in DOMAIN themes["TestTheme"].cache
    /\ Len(themes["TestTheme"].cache["happy"]) = 4
    /\ FindIconRet(themes, "happy", <<16, 2>>, "TestTheme")
           = Some(IconFile("TestTheme", 2, "happy", "png"))

\* C3: whatever find_icon / find_icon_here / pre_populate_cache calls came
\* before (lazy lookups before a pre-population, pre-population repeated),
\* find_icon returns what it returns on a cache populated only lazily
InterleavingConsistent ==
    LET lazy == LazilyPopulated(from_icons(icons), IconNames)
    IN  \A name \in IconNames, rq \in Requests, theme \in ThemeNames :
            /\ FindIconRet(themes, name, rq, theme)
                   = FindIconRet(from_icons(icons), name, rq, theme)
            /\ FindIconRet(themes, name, rq, theme)
                   = FindIconRet(lazy, name, rq, theme)

\* a name was cached lazily and pre-populated afterwards, twice: its list
\* holds the enumeration three times over
WitnessInterleavingConsistent ==
    /\ populated = 2
    /\ "happy" \in DOMAIN themes["TestTheme"].cache
    /\ Len(find_icon_files(icons.themes["TestTheme"], "happy")) = 2
    /\ Len(themes["TestTheme"].cache["happy"]) = 6

\* C4: the candidate list stored under an icon name is written once: no
\* call changes it afterwards, unless the whole table is cleared
MemoWrittenOnce ==
    [][\A k \in DOMAIN themes : \A n \in DOMAIN themes[k].cache :
          \/ themes'[k].cache = EmptyCache
          \/ /\ n \in DOMAIN themes'[k].cache
             /\ themes'[k].cache[n] = themes[k].cache[n]]_vars

\* C4, the consequence it names: no list holds the same
\* (directory reference, icon file) pair twice
NoPairTwice ==
    \A k \in DOMAIN themes : \A n \in DOMAIN themes[k].cache :
        \A i, j \in 1..Len(themes[k].cache[n]) :
            i # j => themes[k].cache[n][i] # themes[k].cache[n][j]

\* C5: find_icon_here called twice with the same name, size and scale
\* returns the same value twice, and the second call enumerates nothing and
\* leaves the memo table as the first call left it
IdempotentMemoization ==
    \A k \in DOMAIN themes, name \in IconNames, rq \in Requests :
        LET first == Here(k, name, rq)
            second == ThemeCache_find_icon_here(icons.themes, first.self,
                                                name, rq[1], rq[2])
        IN  /\ second.ret = first.ret
            /\ ~second.enumerated
            /\ second.self.cache = first.self.cache
            /\ name \in DOMAIN first.self.cache

\* the caches right after a first find_icon_here("happy", 24, 1) on the
\* fresh ThemeCache of TestTheme, which enumerated and found a file
WitnessIdempotentMemoization ==
    LET first == ThemeCache_find_icon_here(icons.themes, from_theme("TestTheme"),
                                           "happy", 24, 1)
    IN  /\ themes["TestTheme"] = first.self
        /\ first.enumerated
        /\ IsSome(first.ret)
        /\ ~Here("TestTheme", "happy", <<24, 1>>).enumerated

\* C6: the theme names of the IconsCache are those of the index it was
\* built from, after construction and after every call
ThemeSetInvariant == DOMAIN themes = DOMAIN icons.themes

\* after pre-population, lookups and a clear, with the default theme present
WitnessThemeSetInvariant ==
    /\ populated = 2
    /\ "hicolor" \in DOMAIN themes
    /\ themes["hicolor"].cache = EmptyCache
    /\ DOMAIN themes["TestTheme"].cache = {"happy", "sad"}
    /\ Cardinality(DOMAIN themes) = 3

\* C7: clear_cache leaves an empty memo table and the same theme, and the
\* next find_icon_here for a name that was cached enumerates again and
\* returns what it returned before the clear
ClearResetsState ==
    \A k \in DOMAIN themes : \A name \in DOMAIN themes[k].cache :
        \A rq \in Requests :
            LET before == Here(k, name, rq)
                cleared == ThemeCache_clear_cache(themes[k])
                after == ThemeCache_find_icon_here(icons.themes, cleared,
                                                   name, rq[1], rq[2])
            IN  /\ cleared.cache = EmptyCache
                /\ cleared.theme = themes[k].theme
                /\ ~before.enumerated
                /\ after.enumerated
                /\ after.ret = before.ret
                /\ DOMAIN after.self.cache = {name}

\* the table of hicolor was cleared after pre-population had put "happy"
\* and "sad" in it, and "sad" was looked up again: it is the only entry and
\* holds the enumeration once
WitnessClearResetsState ==
    /\ populated = 1
    /\ "hicolor" \in DOMAIN themes
    /\ DOMAIN themes["hicolor"].cache = {"sad"}
    /\ themes["hicolor"].cache["sad"]
           = find_icon_files(icons.themes["hicolor"], "sad")
    /\ Len(themes["hicolor"].cache["sad"]) = 2

\* the directory descriptor of candidate k of the enumeration `files`
DescOf(theme, files, k) == theme.directories[files[k][1]].desc

\* the candidates of the enumeration whose directory matches exactly
ExactIn(theme, files, rq) ==
    {k \in 1..Len(files) : matches_size(DescOf(theme, files, k), rq[1], rq[2])}

\* the candidates of the enumeration at the least distance
ClosestIn(theme, files, rq) ==
    {k \in 1..Len(files) : \A m \in 1..Len(files) :
        size_distance(DescOf(theme, files, k), rq[1], rq[2])
            <= size_distance(DescOf(theme, files, m), rq[1], rq[2])}

Least(S) == CHOOSE k \in S : \A m \in S : k <= m

TieBreakDeterminism ==
    \A k \in DOMAIN themes, name \in IconNames, rq \in Requests :
        LET theme == icons.themes[themes[k].theme]
            files == find_icon_files(theme, name)
            r == Here(k, name, rq)
            again == ThemeCache_find_icon_here(icons.themes, r.self,
                                               name, rq[1], rq[2])
        IN  (files # <<>> /\ ExactIn(theme, files, rq) = {}) =>
                /\ r.ret = Some(files[Least(ClosestIn(theme, files, rq))][2])
                /\ again.ret = r.ret

\* "happy" of TestTheme was filled by pre_populate_cache alone; for 24@1
\* nothing matches exactly and the three candidates of the first two
\* directories are equally close
WitnessTieBreakDeterminism ==
    LET theme == icons.themes["TestTheme"]
        files == find_icon_files(theme, "happy")
    IN  /\ populated = 1
        /\ "happy" \in DOMAIN themes["TestTheme"].cache
        /\ themes["TestTheme"].cache["happy"] = files
        /\ ExactIn(theme, files, <<24, 1>>) = {}
        /\ ClosestIn(theme, files, <<24, 1>>) = {1, 2, 3}
        /\ Here("TestTheme", "happy", <<24, 1>>).ret
               = Some(IconFile("TestTheme", 1, "happy", "png"))

\* the themes find_icon of theme k consults, in order: itself, its parents
Chain(k) == <<k>> \o icons.themes[k].inherits_from

\* C10: ThemeCache::find_icon returns the theme's own local match when the
\* theme has a candidate (exact or not, whatever the parents have), else the
\* local match of the first parent in inherits_from order that has one, and
\* no match only when neither the theme nor a parent has a candidate
InheritanceOrdering ==
    \A k \in DOMAIN themes, name \in IconNames, rq \in Requests :
        LET chain == Chain(themes[k].theme)
            has == {i \in 1..Len(chain) :
                       find_icon_files(icons.themes[chain[i]], name) # <<>>}
            r == ThemeCache_find_icon(icons.themes, themes[k], name, rq[1], rq[2])
        IN  IF has = {} THEN r.ret = None
            ELSE /\ IsSome(r.ret)
                 /\ Unwrap(r.ret).theme = chain[Least(has)]
                 /\ r.ret = Theme_find_icon_here(icons.themes[chain[Least(has)]],
                                                 name, rq[1], rq[2])

\* TestTheme has "happy" only in a directory that does not match 24@1 while
\* its first parent matches it exactly, and has no "sad" while only its
\* second parent has: find_icon was called for both
WitnessInheritanceOrdering ==
    /\ DOMAIN themes["TestTheme"].cache = {"happy", "sad"}
    /\ Len(icons.themes["TestTheme"].inherits_from) = 2
    /\ ThemeCache_find_icon(icons.themes, themes["TestTheme"], "happy", 24, 1).ret
           = Some(IconFile("TestTheme", 2, "happy", "png"))
    /\ IsSome(ExactMatch(icons.themes["OtherTheme"].directories,
                         find_icon_files(icons.themes["OtherTheme"], "happy"),
                         24, 1))
    /\ ThemeCache_find_icon(icons.themes, themes["TestTheme"], "sad", 24, 1).ret
           = Some(IconFile("hicolor", 1, "sad", "png"))
    /\ find_icon_files(icons.themes["OtherTheme"], "sad") = <<>>

\* the whole call IconsCache::find_icon on the current caches
FindIconCall(name, rq, theme) ==
    IconsCache_find_icon(icons, themes, name, rq[1], rq[2], theme)

\* C11: find_icon with an unknown theme name returns what the same call
\* with "hicolor" returns and leaves the caches as that call leaves them;
\* with "hicolor" unknown too it returns no match, a standalone icon of
\* that name or not, and changes no memo table
ThemeNotFoundFallback ==
    \A name \in IconNames, rq \in Requests :
        \A theme \in ThemeNames \ DOMAIN themes :
            LET r == FindIconCall(name, rq, theme)
                h == FindIconCall(name, rq, "hicolor")
            IN  /\ r.ret = h.ret
                /\ r.themes = h.themes
                /\ "hicolor" \notin DOMAIN themes =>
                       /\ r.ret = None
                       /\ r.themes = themes

\* the caches right after find_icon("sad", 24, 1, "NoSuchTheme") on a fresh
\* IconsCache with the default theme: the table of hicolor holds "sad" and
\* the call returned hicolor's file
WitnessThemeNotFoundFallback ==
    LET r == IconsCache_find_icon(icons, from_icons(icons),
                                  "sad", 24, 1, "NoSuchTheme")
    IN  /\ "hicolor" \in DOMAIN themes
        /\ themes = r.themes
        /\ DOMAIN themes["hicolor"].cache = {"sad"}
        /\ r.ret = Some(IconFile("hicolor", 1, "sad", "png"))

\* the icon files the standalone lookup can return
StandaloneFiles == {icons.standalone[n] : n \in DOMAIN icons.standalone}

\* the icon files stored in the memo tables `thms`
CachedFiles(thms) ==
    UNION {UNION {{thms[k].cache[n][i][2] : i \in 1..Len(thms[k].cache[n])} :
                  n \in DOMAIN thms[k].cache} :
           k \in DOMAIN thms}

\* C12: find_icon returns the standalone lookup's result only when the
\* resolved theme and every parent of it has no candidate for the name;
\* when a theme of the chain has one it returns the themed result; and no
\* memo table ever holds a standalone icon
StandaloneFallbackOrder ==
    /\ CachedFiles(themes) \cap StandaloneFiles = {}
    /\ \A name \in IconNames \ {""}, rq \in Requests, theme \in ThemeNames :
           LET th == OrElse(theme_cache_mut(themes, theme),
                            theme_cache_mut(themes, "hicolor"))
               chain == Chain(Unwrap(th))
               has == {i \in 1..Len(chain) :
                          find_icon_files(icons.themes[chain[i]], name) # <<>>}
               r == FindIconCall(name, rq, theme)
           IN  IsSome(th) =>
                   /\ has # {} =>
                          /\ IsSome(r.ret)
                          /\ Unwrap(r.ret) \notin StandaloneFiles
                          /\ r.ret = ThemeCache_find_icon(icons.themes,
                                         themes[Unwrap(th)], name, rq[1], rq[2]).ret
                   /\ has = {} => r.ret = find_standalone_icon(icons, name)

\* the caches right after find_icon("sad", 24, 1, "OtherTheme") on a fresh
\* IconsCache: OtherTheme, which has no parent, remembers the miss, and the
\* call returned the standalone icon; through hicolor, which has "sad", the
\* same name gives hicolor's file
WitnessStandaloneFallbackOrder ==
    LET r == IconsCache_find_icon(icons, from_icons(icons),
                                  "sad", 24, 1, "OtherTheme")
    IN  /\ themes = r.themes
        /\ themes["OtherTheme"].cache = [n \in {"sad"} |-> <<>>]
        /\ r.ret = Some(IconFile("", 0, "sad", "png"))
        /\ "hicolor" \in DOMAIN themes
        /\ FindIconCall("sad", <<24, 1>>, "hicolor").ret
               = Some(IconFile("hicolor", 1, "sad", "png"))

\* C13: find_icon with the empty icon name returns no match, for every
\* size, scale and theme name, and leaves every memo table as it was
EmptyNameGuard ==
    \A rq \in Requests, theme \in ThemeNames :
        LET r == FindIconCall("", rq, theme)
        IN  /\ r.ret = None
            /\ r.themes = themes
            /\ \A k \in DOMAIN r.themes : "" \notin DOMAIN r.themes[k].cache

\* tables filled by a lookup and by pre_populate_cache, none of them with
\* an entry for the empty name
WitnessEmptyNameGuard ==
    /\ populated = 1
    /\ DOMAIN themes["TestTheme"].cache = {"happy", "sad"}
    /\ \A k \in DOMAIN themes : "" \notin DOMAIN themes[k].cache
    /\ FindIconCall("", <<24, 1>>, "TestTheme").ret = None
    /\ IsSome(FindIconCall("happy", <<24, 1>>, "TestTheme").ret)

\* C14: find_icon_here returns no match exactly when the theme has no
\* candidate file for the name, for every size and scale, zero included;
\* after such a call the memo table maps the name to the empty list; and a
\* non-empty candidate list always yields a match
MissRemembered ==
    \A k \in DOMAIN themes, name \in IconNames :
        \A rq \in Requests \cup ZeroRequests :
            LET files == find_icon_files(icons.themes[themes[k].theme], name)
                r == Here(k, name, rq)
            IN  /\ r.ret = None <=> files = <<>>
                /\ name \in DOMAIN r.self.cache
                /\ r.ret = None => r.self.cache[name] = <<>>
                /\ r.self.cache[name] # <<>> => IsSome(r.ret)

\* the table of TestTheme right after find_icon_here("sad", ..) on its
\* fresh ThemeCache: the miss is stored as the empty list, while "happy",
\* which has files, is found at size 0
WitnessMissRemembered ==
    LET r == ThemeCache_find_icon_here(icons.themes, from_theme("TestTheme"),
                                       "sad", 0, 1)
    IN  /\ themes["TestTheme"] = r.self
        /\ r.ret = None
        /\ r.enumerated
        /\ themes["TestTheme"].cache = [n \in {"sad"} |-> <<>>]
        /\ Here("TestTheme", "happy", <<0, 1>>).ret
               = Some(IconFile("TestTheme", 3, "happy", "png"))

\* C15: every directory reference stored in a memo table is a position of
\* the directory list of that ThemeCache's theme, so the indexing of
\* find_icon_here cannot go out of bounds
DirectoryRefsValid ==
    \A k \in DOMAIN themes : \A n \in DOMAIN themes[k].cache :
        \A i \in 1..Len(themes[k].cache[n]) :
            themes[k].cache[n][i][1]
                \in 1..Len(icons.themes[themes[k].theme].directories)

\* "happy" of TestTheme was looked up, pre-populated and is stored with
\* references to every directory of the theme, the last one included
WitnessDirectoryRefsValid ==
    /\ populated = 1
    /\ "happy" \in DOMAIN themes["TestTheme"].cache
    /\ Len(themes["TestTheme"].cache["happy"]) = 8
    /\ {themes["TestTheme"].cache["happy"][i][1] : i \in 1..8} = 1..3
    /\ themes["OtherTheme"].cache = EmptyCache

\* C16: find_icon(name, ..) changes at most the entry of `name` in the memo
\* table of the theme it resolves to: no other key of that table, and no
\* table of another ThemeCache, the parents it consults included
LookupFrame ==
    \A name \in IconNames, rq \in Requests, theme \in ThemeNames :
        LET r == FindIconCall(name, rq, theme)
            th == OrElse(theme_cache_mut(themes, theme),
                         theme_cache_mut(themes, "hicolor"))
        IN  /\ DOMAIN r.themes = DOMAIN themes
            /\ \A k \in DOMAIN themes :
                   /\ th # Some(k) => r.themes[k] = themes[k]
                   /\ r.themes[k].theme = themes[k].theme
                   /\ DOMAIN r.themes[k].cache \subseteq
                          DOMAIN themes[k].cache \cup {name}
                   /\ \A n \in DOMAIN themes[k].cache \ {name} :
                          r.themes[k].cache[n] = themes[k].cache[n]

\* the caches right after find_icon("sad", 24, 1, "TestTheme") with "happy"
\* cached before: the call returned the file of the second parent, whose
\* table and the first parent's stay empty, and "happy" is as it was
WitnessLookupFrame ==
    LET r == FindIconCall("sad", <<24, 1>>, "TestTheme")
    IN  /\ populated = 0
        /\ r.themes = themes
        /\ r.ret = Some(IconFile("hicolor", 1, "sad", "png"))
        /\ DOMAIN themes["TestTheme"].cache = {"happy", "sad"}
        /\ themes["TestTheme"].cache["happy"] # <<>>
        /\ themes["OtherTheme"].cache = EmptyCache
        /\ themes["hicolor"].cache = EmptyCache

\* C17: a triple whose theme has no cache entry, or whose directory is not
\* found in the theme's directory list, is skipped alone: wherever it comes
\* in the walk, the pass ends with the caches of the pass without it, every
\* other triple placed, and the entries that were there are kept at the
\* front of their lists
AnomaliesRecoverable ==
    \A order \in Orders(DOMAIN icons.themes), extra \in Anomalies :
        LET walk == find_all_icons(icons, order)
            clean == PrePopulateLoop(icons.themes, themes, walk)
        IN  /\ Skipped(icons.themes, themes, extra)
            /\ \A p \in 0..Len(walk) :
                   PrePopulateLoop(icons.themes, themes, InsertAt(walk, p, extra))
                       = clean
            /\ \A k \in DOMAIN themes : \A n \in DOMAIN themes[k].cache :
                   /\ n \in DOMAIN clean[k].cache
                   /\ SubSeq(clean[k].cache[n], 1, Len(themes[k].cache[n]))
                          = themes[k].cache[n]
                   /\ Len(clean[k].cache[n]) = Len(themes[k].cache[n])
                          + Len(find_icon_files(icons.themes[k], n))

\* pre_populate_cache met a foreign triple and skipped it: every
\* theme's table is filled all the same, and the entry cached before the
\* pass is in front of what the pass pushed
WitnessAnomaliesRecoverable ==
    /\ populated = 1
    /\ "hicolor" \in DOMAIN themes
    /\ DOMAIN themes["hicolor"].cache = {"happy", "sad"}
    /\ DOMAIN themes["OtherTheme"].cache = {"happy"}
    /\ "happy" \in DOMAIN themes["TestTheme"].cache
    /\ Len(find_icon_files(icons.themes["TestTheme"], "happy")) = 4
    /\ Len(themes["TestTheme"].cache["happy"]) = 8

====
